---- MODULE Spec2Model ----
(***************************************************************************)
(* Model of src/bot.py: the voice-channel presence tracker (VcNotifier),   *)
(* its daily rollover task, the two persisted JSON documents and the       *)
(* notification path.                                                      *)
(*                                                                         *)
(* Python values are encoded as tuples so that values of different Python  *)
(* types stay comparable:  <<"none">>, <<"int", n>>, <<"bool", b>>.        *)
(* Dicts are functions whose DOMAIN is the key set.  JSON documents on     *)
(* disk are <<"missing">>, <<"malformed">>, <<"partial">>, <<"array">> or  *)
(* <<"object", content>>.                                                  *)
(***************************************************************************)
EXTENDS Integers, Sequences, FiniteSets, TLC

\* ------------------------------------------------------------------ bounds
MaxSteps == 1          \* the clock takes the values ClockBase + k*ClockStep, k in 0..MaxSteps
MaxEvents == 4         \* how many handler invocations a run is followed for
ClockStep == 30        \* granularity of the modelled clock, in seconds
ClockBase == 53910     \* 14:58:30 UTC = 23:58:30 in UTC+9
SubSec == 2            \* a float duration is counted in 1/SubSec of a second
MaxSec == 3725         \* the longest duration handed to the formatters

\* ------------------------------------------------------- program constants
JstOffset == 32400     \* JST = timezone(timedelta(hours=9))
TargetVc == 10         \* config.target_vc_id
OtherVc == 20          \* some other voice channel of the guild
NoChannel == 0         \* before.channel / after.channel is None
AdminChannel == 8      \* interaction.channel_id of the admin command
SavedChannel == 7      \* the channel a config.json left by an earlier run names

Members == {1, 2}
Locations == {NoChannel, TargetVc, OtherVc}
ClockValues == {ClockBase + k * ClockStep : k \in 0..MaxSteps}

PyNone == <<"none">>
PyInt(n) == <<"int", n>>
PyBool(b) == <<"bool", b>>

\* Python truthiness of None / int / bool  (`if not self.dest_channel_id`)
Truthy(v) == v[1] # "none" /\ v[2] # 0

EmptyDict == [k \in {} |-> 0]
DictSet(d, k, v) == [x \in (DOMAIN d) \cup {k} |-> IF x = k THEN v ELSE d[x]]
DictDel(d, k) == [x \in (DOMAIN d) \ {k} |-> d[x]]
DictGet(d, k, default) == IF k \in DOMAIN d THEN d[k] ELSE default

VARIABLES
  clock,            \* time.time(), the host's wall clock
  events,           \* how many handlers have run
  join_times,       \* self.join_times : dict member -> start instant
  daily_total,      \* self.daily_total : dict member -> seconds
  active_users,     \* self.active_users : set of members
  dest_channel_id,  \* self.dest_channel_id
  config_file,      \* data/config.json
  totals_file,      \* data/daily_totals.json
  ready,            \* bot.wait_until_ready() has returned
  loop,             \* the daily_summary task: "running", "sending", "stopped"
  pending,          \* the summary handed to notify while daily_summary is suspended
  in_flight,        \* members credited by a leave while daily_summary is suspended
  last_enter,       \* per member: clock of the latest enter event, enters since the last leave event
  fmt_sec,          \* the duration handed to the two formatters, in 1/SubSec s
  fmt_out,          \* what fmt and the summary's formatting made of it
  last              \* what the most recent handler did

vars == <<clock, events, join_times, daily_total, active_users, dest_channel_id,
          config_file, totals_file, ready, loop, pending, in_flight, last_enter,
          fmt_sec, fmt_out, last>>

\* ------------------------------------------------------- persisted documents
\* Values a JSON document may hold under "dest_channel_id".
ConfigValues ==
  { <<"null">>, <<"num", SavedChannel>>, <<"digits", SavedChannel>>, <<"str">>, <<"bool", 1>> }

ConfigDocs ==
  { <<"missing">>, <<"malformed">>, <<"array">> } \cup { <<"object", v>> : v \in ConfigValues }

\* load_persisted_dest_channel_id
load_persisted_dest_channel_id(file) ==
  IF file[1] # "object" THEN PyNone          \* not there, or json.load / obj.get raised
  ELSE LET val == file[2] IN
       CASE val[1] = "num"    -> PyInt(val[2])      \* isinstance(val, int)
         [] val[1] = "bool"   -> PyBool(val[2])     \* bool is a subclass of int
         [] val[1] = "digits" -> PyInt(val[2])      \* isinstance(val, str) and val.isdigit()
         [] OTHER             -> PyNone

\* json.dump({"dest_channel_id": ch_id})
ConfigJson(ch_id) ==
  CASE ch_id[1] = "int"  -> <<"object", <<"num", ch_id[2]>>>>
    [] ch_id[1] = "bool" -> <<"object", <<"bool", ch_id[2]>>>>
    [] OTHER             -> <<"object", <<"null">>>>

SaveOutcomes == {"ok", "write_error", "crash"}

\* a save that leaves a document already there alone
save_persisted_dest_channel_id_once(file, ch_id, io) ==
  IF io = "ok" /\ file[1] # "object" THEN ConfigJson(ch_id) ELSE file

\* save_persisted_dest_channel_id: the document is written to config.json.tmp
\* and moved over config.json only when it is complete.
save_persisted_dest_channel_id(file, ch_id, io) ==
  IF io = "ok" THEN ConfigJson(ch_id) ELSE file

\* Keys and values a totals document may hold.
\* key:   <<"id", m>> a string of digits, <<"word">> any other string
\* value: <<"num", n>>, <<"numstr", n>> a string float() accepts, <<"bool", b>>,
\*        <<"null">>, <<"list">>, <<"str">>
TotalsJson(totals) == <<"object", [k \in {<<"id", m>> : m \in DOMAIN totals} |-> <<"num", totals[k[2]]>>]>>

FloatOk(v) == v[1] \in {"num", "numstr", "bool"}
PyFloat(v) == v[2]

\* VcNotifier._load_daily_totals
load_daily_totals(file) ==
  IF file[1] # "object" THEN EmptyDict       \* not there, or json.load / .items() raised
  ELSE LET obj == file[2] IN
       IF \A k \in DOMAIN obj : k[1] = "id" /\ FloatOk(obj[k])
       THEN [m \in {k[2] : k \in DOMAIN obj} |-> PyFloat(obj[<<"id", m>>])]
       ELSE EmptyDict                        \* int(k) or float(v) raised

\* a save that skips the write when there is nothing to write
save_daily_totals_nonempty(file, totals, io) ==
  IF io = "ok" THEN (IF totals = EmptyDict THEN file ELSE TotalsJson(totals))
  ELSE <<"partial">>

\* VcNotifier._save_daily_totals: open(DAILY_TOTALS_PATH, "w") truncates the
\* document in place, json.dump then writes it piece by piece.
save_daily_totals(file, totals, io) ==
  IF io = "ok" THEN TotalsJson(totals) ELSE <<"partial">>

TotalsDocs ==
  { <<"missing">>, <<"malformed">>, <<"array">>,
    TotalsJson(EmptyDict),
    TotalsJson([m \in {1} |-> 30]),
    <<"object", [k \in {<<"id", 1>>} |-> <<"numstr", 30>>]>>,
    <<"object", [k \in {<<"id", 1>>} |-> <<"bool", 1>>]>>,
    <<"object", [k \in {<<"id", 1>>} |-> <<"null">>]>>,
    <<"object", [k \in {<<"word">>} |-> <<"num", 30>>]>> }

\* ------------------------------------------------------------ notifications
\* int(x) of a float x counted in 1/SubSec: truncation towards zero
PyTrunc(x) == IF x >= 0 THEN x \div SubSec ELSE -((-x) \div SubSec)

\* fmt(sec) of on_voice_state_update for a float sec (counted in 1/SubSec): the
\* branches compare the float, the fields are taken from int(sec)
fmt_float(x) ==
  IF x < 60 * SubSec THEN <<PyTrunc(x), "sec">>
  ELSE IF x < 3600 * SubSec THEN <<PyTrunc(x) \div 60, "min", PyTrunc(x) % 60, "sec">>
  ELSE <<PyTrunc(x) \div 3600, "hour", (PyTrunc(x) % 3600) \div 60, "min",
         (PyTrunc(x) % 3600) % 60, "sec">>

\* fmt(sec) for a whole number of seconds
fmt(sec) == fmt_float(sec * SubSec)

\* a formatting that leaves out a seconds field of zero
summary_float_trimmed(x) ==
  LET total == PyTrunc(x) IN
  IF total < 60 THEN <<total, "sec">>
  ELSE IF total % 60 = 0 THEN <<total \div 60, "min">>
  ELSE IF total < 3600 THEN <<total \div 60, "min", total % 60, "sec">>
  ELSE <<total \div 3600, "hour", (total % 3600) \div 60, "min", (total % 3600) % 60, "sec">>

\* the inline formatting of daily_summary for a float total (counted in
\* 1/SubSec): total = int(...) first, the branches compare the int
summary_float(x) ==
  LET total == PyTrunc(x) IN
  IF total < 60 THEN <<total, "sec">>
  ELSE IF total < 3600 THEN <<total \div 60, "min", total % 60, "sec">>
  ELSE <<total \div 3600, "hour", (total % 3600) \div 60, "min", (total % 3600) % 60, "sec">>

\* the inline formatting of daily_summary for a whole number of seconds
summary_fmt(total) == summary_float(total * SubSec)

EnteredMsg(m, ch) == <<"entered", m, ch>>
LeftMsg(m, ch, stay, total) == <<"left", m, ch, fmt(stay), fmt(total)>>

\* a summary that lists only the members who have a total on record
SummaryMembers_withTotals(active, totals) == active \cap DOMAIN totals

\* a summary that lists only the members who are in the channel at the cutoff
SummaryMembers_inChannel(active, totals) == active \cap DOMAIN join_times

\* the members daily_summary writes a line for
SummaryMembers(active, totals) == active

\* msg_lines of daily_summary: one line per member of active_users
SummaryMsg(active, totals) ==
  <<"summary", [uid \in SummaryMembers(active, totals) |-> summary_fmt(DictGet(totals, uid, 0))]>>

\* What the transport does with one delivery: is the channel resolvable, what
\* does send(suppress_notifications=True) do, what does the plain send do.
NetOutcomes ==
  { [ch |-> "found",   send |-> "ok",            plain |-> "ok"],
    [ch |-> "missing", send |-> "ok",            plain |-> "ok"],
    [ch |-> "found",   send |-> "Forbidden",     plain |-> "ok"],
    [ch |-> "found",   send |-> "HTTPException", plain |-> "ok"],
    [ch |-> "found",   send |-> "TypeError",     plain |-> "ok"],
    [ch |-> "found",   send |-> "TypeError",     plain |-> "Forbidden"] }

\* send_to_channel: "delivered", "logged" (failure caught) or "raised"
send_to_channel(net) ==
  IF net.ch = "missing" THEN "logged"                 \* fetch_channel raised, caught
  ELSE CASE net.send = "ok"        -> "delivered"
         [] net.send = "TypeError" -> IF net.plain = "ok" THEN "delivered" ELSE "raised"
         [] OTHER                  -> "logged"        \* discord.Forbidden / Exception

\* VcNotifier.notify
notify(dest, net) ==
  IF ~Truthy(dest) THEN "dropped" ELSE send_to_channel(net)

\* ------------------------------------------------------------------- clock
\* datetime.now(JST): hour and minute of the wall clock in UTC+9
JstHour(t) == ((t + JstOffset) % 86400) \div 3600
JstMinute(t) == (((t + JstOffset) % 86400) % 3600) \div 60

\* the firing condition of daily_summary
IsCutoff(t, active) == JstHour(t) = 23 /\ JstMinute(t) = 59 /\ active # {}

\* ------------------------------------------------------------------- state
NoPending == <<"none">>

\* What a handler did: the operation, the member, what the event was ("enter" or
\* "leave" of the target channel, "none" otherwise), the branch taken, the
\* duration credited, the messages handed to notify, notify's result, and
\* whether the process died in the handler.
Report(op, m, event, kind, stay, notes, result, crashed) ==
  [op |-> op, member |-> m, event |-> event, kind |-> kind, stay |-> stay,
   notes |-> notes, result |-> result, crashed |-> crashed]

\* VcNotifier.__init__ (and VcBot.setup_hook starting the loop): the state of a
\* freshly started process, given the two documents on disk.
Boot(cfile, tfile, report) ==
  /\ dest_channel_id' = load_persisted_dest_channel_id(cfile)
  /\ join_times' = EmptyDict
  /\ daily_total' = load_daily_totals(tfile)
  /\ active_users' = {}
  /\ config_file' = cfile
  /\ totals_file' = tfile
  /\ ready' = FALSE
  /\ loop' = "running"
  /\ pending' = NoPending
  /\ in_flight' = {}
  /\ last' = report

Init ==
  /\ clock = ClockBase
  /\ events = 0
  /\ config_file \in {<<"missing">>, ConfigJson(PyInt(SavedChannel))}
  /\ totals_file = <<"missing">>
  /\ dest_channel_id = load_persisted_dest_channel_id(config_file)
  /\ join_times = EmptyDict
  /\ daily_total = load_daily_totals(totals_file)
  /\ active_users = {}
  /\ ready = FALSE
  /\ loop = "running"
  /\ pending = NoPending
  /\ in_flight = {}
  /\ last_enter = EmptyDict
  /\ fmt_sec = 0
  /\ fmt_out = <<>>
  /\ last = Report("start", 0, "none", "start", PyNone, <<>>, "none", FALSE)

\* ---------------------------------------------------------------- handlers
\* A handler runs: the clock is left alone and the run's budget is used.
Count ==
  /\ events < MaxEvents
  /\ events' = events + 1
  /\ UNCHANGED clock

\* a pop whose default is a start instant instead of None
PopJoinTime_default(jts, m) == IF m \in DOMAIN jts THEN PyInt(jts[m]) ELSE PyInt(ClockBase)

\* self.join_times.pop(member.id, None)
PopJoinTime(jts, m) == IF m \in DOMAIN jts THEN PyInt(jts[m]) ELSE PyNone

\* stay = time.time() - join_time
Stay(now, join_time) == now - join_time

\* a total that starts again from the session just ended
AddDuration_fresh(totals, m, stay) == stay

\* self.daily_total.get(member.id, 0) + stay
AddDuration(totals, m, stay) == DictGet(totals, m, 0) + stay

\* the enter branch of on_voice_state_update
IsEnter(before, after) == before = NoChannel /\ after # NoChannel

\* the leave branch of on_voice_state_update
IsLeave(before, after) == before # NoChannel /\ after = NoChannel

\* The event is an enter / a leave of the target channel for a human member.
EnterEvent(bot, before, after) == ~bot /\ before # TargetVc /\ after = TargetVc
LeaveEvent(bot, before, after) == ~bot /\ before = TargetVc /\ after # TargetVc

\* VcNotifier.on_voice_state_update(member, before, after); net is what the
\* transport does with the notification, io what the disk does with the save.
EventClass(bot, before, after) ==
  IF bot THEN "bot"
  ELSE IF before # TargetVc /\ after # TargetVc THEN "elsewhere"
  ELSE IF EnterEvent(bot, before, after) THEN "enter"
  ELSE IF LeaveEvent(bot, before, after) THEN "leave" ELSE "none"

\* a filter that lets the transitions of automated accounts through
Ignored_anyAccount(bot, before, after) == TargetVc \notin {before, after}

\* the two early returns of on_voice_state_update: member.bot, and
\* target not in {before_id, after_id}
Ignored(bot, before, after) == bot \/ TargetVc \notin {before, after}

NetOk == [ch |-> "found", send |-> "ok", plain |-> "ok"]

on_voice_state_update(m, bot, before, after, net, io) ==
  LET ev(kind, stay, notes, result, crashed) ==
        Report("voice", m, EventClass(bot, before, after), kind, stay, notes, result, crashed)
      join_time == PopJoinTime(join_times, m)
  IN
  /\ Count
  /\ IF Ignored(bot, before, after)
     THEN /\ net = NetOk /\ io = "ok"
          /\ last' = ev("ignored", PyNone, <<>>, "none", FALSE)
          /\ UNCHANGED <<join_times, daily_total, active_users, dest_channel_id, config_file,
                         totals_file, ready, loop, pending, in_flight>>
     ELSE IF IsEnter(before, after)
     THEN /\ io = "ok"
          /\ join_times' = DictSet(join_times, m, clock)
          /\ active_users' = active_users \cup {m}
          /\ last' = ev("enter", PyNone, <<EnteredMsg(m, after)>>, notify(dest_channel_id, net), FALSE)
          /\ UNCHANGED <<daily_total, dest_channel_id, config_file, totals_file, ready, loop,
                         pending, in_flight>>
     ELSE IF IsLeave(before, after)
     THEN IF Truthy(join_time)
          THEN LET stay == Stay(clock, join_time[2])
                   total == AddDuration(daily_total, m, stay)
               IN IF io = "crash"
                  THEN Boot(config_file, save_daily_totals(totals_file, DictSet(daily_total, m, total), io),
                            ev("leave", PyInt(stay), <<>>, "none", TRUE))
                  ELSE /\ join_times' = DictDel(join_times, m)
                       /\ daily_total' = DictSet(daily_total, m, total)
                       /\ totals_file' = save_daily_totals(totals_file, DictSet(daily_total, m, total), io)
                       /\ in_flight' = IF loop = "sending" /\ stay # 0 THEN in_flight \cup {m} ELSE in_flight
                       /\ last' = ev("leave", PyInt(stay), <<LeftMsg(m, before, stay, total)>>,
                                     notify(dest_channel_id, net), FALSE)
                       /\ UNCHANGED <<active_users, dest_channel_id, config_file, ready, loop, pending>>
          ELSE /\ net = NetOk /\ io = "ok"
               /\ join_times' = DictDel(join_times, m)
               /\ last' = ev("dropped", PyNone, <<>>, "none", FALSE)
               /\ UNCHANGED <<daily_total, active_users, dest_channel_id, config_file, totals_file,
                              ready, loop, pending, in_flight>>
     ELSE /\ net = NetOk /\ io = "ok"
          /\ last' = ev("unhandled", PyNone, <<>>, "none", FALSE)
          /\ UNCHANGED <<join_times, daily_total, active_users, dest_channel_id, config_file,
                         totals_file, ready, loop, pending, in_flight>>

\* self.daily_total.clear(); self.active_users.clear(); self._save_daily_totals()
ResetAll(io, report) ==
  IF io = "crash"
  THEN Boot(config_file, save_daily_totals(totals_file, EmptyDict, io), report)
  ELSE /\ daily_total' = EmptyDict
       /\ active_users' = {}
       /\ totals_file' = save_daily_totals(totals_file, EmptyDict, io)
       /\ loop' = "running"
       /\ pending' = NoPending
       /\ in_flight' = {}
       /\ last' = report
       /\ UNCHANGED <<join_times, dest_channel_id, config_file, ready>>

\* One iteration of the daily_summary loop, up to the point where notify
\* suspends on the transport (notify returns at once when no destination is set).
daily_summary_iteration(io) ==
  LET msg == SummaryMsg(active_users, daily_total)
      ev(kind, notes, result, crashed) ==
        Report("daily_summary", 0, "none", kind, PyNone, notes, result, crashed)
  IN
  /\ loop = "running"
  /\ Count
  /\ IF IsCutoff(clock, active_users)
     THEN IF ~Truthy(dest_channel_id)
          THEN ResetAll(io, ev("rollover", <<msg>>, "dropped", io = "crash"))
          ELSE /\ io = "ok"
               /\ loop' = "sending"
               /\ pending' = msg
               /\ in_flight' = {}
               /\ last' = ev("fired", <<msg>>, "none", FALSE)
               /\ UNCHANGED <<join_times, daily_total, active_users, dest_channel_id, config_file,
                              totals_file, ready>>
     ELSE /\ io = "ok"
          /\ last' = ev("skipped", <<>>, "none", FALSE)
          /\ UNCHANGED <<join_times, daily_total, active_users, dest_channel_id, config_file,
                         totals_file, ready, loop, pending, in_flight>>

\* a loop that iterates without waiting for before_loop
daily_summary_unready(io) == daily_summary_iteration(io)

\* The daily_summary task: tasks.loop runs before_summary to its end before the
\* first iteration, so no iteration runs until wait_until_ready has returned.
daily_summary(io) == ready /\ daily_summary_iteration(io)

\* daily_summary resumes when the transport has answered.  An exception out of
\* notify ends the iteration before the reset and stops the tasks.loop.
daily_summary_resume(net, io) ==
  LET result == send_to_channel(net)
      ev(kind, crashed) ==
        Report("daily_summary", 0, "none", kind, PyNone, <<>>, result, crashed)
  IN
  /\ loop = "sending"
  /\ Count
  /\ IF result = "raised"
     THEN /\ io = "ok"
          /\ loop' = "stopped"
          /\ pending' = NoPending
          /\ in_flight' = {}
          /\ last' = ev("aborted", FALSE)
          /\ UNCHANGED <<join_times, daily_total, active_users, dest_channel_id, config_file,
                         totals_file, ready>>
     ELSE ResetAll(io, ev("rollover", io = "crash"))

\* AdminGroup.setchannel
setchannel(ch, io) ==
  LET ev == Report("setchannel", ch, "none", "set", PyNone, <<>>,
                   IF io = "ok" THEN "saved" ELSE "unsaved", io = "crash")
  IN
  /\ ready
  /\ Count
  /\ IF io = "crash"
     THEN Boot(save_persisted_dest_channel_id(config_file, PyInt(ch), io), totals_file, ev)
     ELSE /\ dest_channel_id' = PyInt(ch)
          /\ config_file' = save_persisted_dest_channel_id(config_file, PyInt(ch), io)
          /\ last' = ev
          /\ UNCHANGED <<join_times, daily_total, active_users, totals_file, ready, loop, pending,
                         in_flight>>

\* daily_summary.before_loop: bot.wait_until_ready() returns
before_summary ==
  /\ ~ready
  /\ ready' = TRUE
  /\ last' = Report("ready", 0, "none", "ready", PyNone, <<>>, "none", FALSE)
  /\ UNCHANGED <<clock, events, join_times, daily_total, active_users, dest_channel_id, config_file,
                 totals_file, loop, pending, in_flight>>

\* The process is stopped and started again: main() builds a new VcBot.
Restart ==
  /\ Count
  /\ Boot(config_file, totals_file,
          Report("start", 0, "none", "start", PyNone, <<>>, "none", FALSE))

\* The wall clock moves on.
Advance ==
  /\ clock < ClockBase + MaxSteps * ClockStep
  /\ clock' = clock + ClockStep
  /\ UNCHANGED <<events, join_times, daily_total, active_users, dest_channel_id, config_file,
                 totals_file, ready, loop, pending, in_flight, last>>

\* The wall clock is set back (time.time() is not monotonic).
SetBack ==
  /\ clock > ClockBase
  /\ clock' = clock - ClockStep
  /\ UNCHANGED <<events, join_times, daily_total, active_users, dest_channel_id, config_file,
                 totals_file, ready, loop, pending, in_flight, last>>

\* The history variable last_enter is kept by the specification, not by the
\* program: Tracked records the clock of an enter event and how many enter
\* events the member has had since its last leave event, and forgets everything
\* when the process starts again; Untracked leaves it alone.
Tracked ==
  LET m == last'.member
      n == IF m \in DOMAIN last_enter THEN last_enter[m].n ELSE 0
  IN /\ last_enter' =
       IF last'.op = "start" \/ last'.crashed THEN EmptyDict
       ELSE IF last'.op = "voice" /\ last'.event = "enter"
            THEN DictSet(last_enter, m, [at |-> clock, n |-> IF n < 2 THEN n + 1 ELSE 2])
       ELSE IF last'.op = "voice" /\ last'.event = "leave" /\ m \in DOMAIN last_enter
            THEN DictSet(last_enter, m, [at |-> last_enter[m].at, n |-> 0])
       ELSE last_enter
     /\ UNCHANGED <<fmt_sec, fmt_out>>

Untracked == UNCHANGED <<last_enter, fmt_sec, fmt_out>>

Next ==
  \/ \E m \in Members, bot \in BOOLEAN, before \in Locations, after \in Locations,
        net \in NetOutcomes, io \in SaveOutcomes :
       on_voice_state_update(m, bot, before, after, net, io) /\ Untracked
  \/ \E io \in SaveOutcomes : daily_summary(io) /\ Untracked
  \/ \E net \in NetOutcomes, io \in SaveOutcomes : daily_summary_resume(net, io) /\ Untracked
  \/ \E io \in SaveOutcomes : setchannel(AdminChannel, io) /\ Untracked
  \/ before_summary /\ Untracked
  \/ Restart /\ Untracked
  \/ Advance /\ Untracked

Spec == Init /\ [][Next]_vars

\* One member, a wall clock that may also be set back, and the enter history.
NextSingle ==
  \/ \E bot \in BOOLEAN, before \in Locations, after \in Locations,
        net \in NetOutcomes, io \in SaveOutcomes :
       on_voice_state_update(1, bot, before, after, net, io) /\ Tracked
  \/ \E io \in SaveOutcomes : daily_summary(io) /\ Tracked
  \/ \E net \in NetOutcomes, io \in SaveOutcomes : daily_summary_resume(net, io) /\ Tracked
  \/ \E io \in SaveOutcomes : setchannel(AdminChannel, io) /\ Tracked
  \/ before_summary /\ Tracked
  \/ Restart /\ Tracked
  \/ Advance /\ Untracked
  \/ SetBack /\ Untracked

SpecSingle == Init /\ [][NextSingle]_vars

\* Start-up on whatever an earlier run, or anything else, left on disk.
InitBoot ==
  /\ clock = ClockBase
  /\ events = 0
  /\ config_file \in ConfigDocs
  /\ totals_file \in TotalsDocs
  /\ dest_channel_id = load_persisted_dest_channel_id(config_file)
  /\ join_times = EmptyDict
  /\ daily_total = load_daily_totals(totals_file)
  /\ active_users = {}
  /\ ready = FALSE
  /\ loop = "running"
  /\ pending = NoPending
  /\ in_flight = {}
  /\ last_enter = EmptyDict
  /\ fmt_sec = 0
  /\ fmt_out = <<>>
  /\ last = Report("start", 0, "none", "start", PyNone, <<>>, "none", FALSE)

NextBoot ==
  \/ Restart /\ Untracked
  \/ before_summary /\ Untracked
  \/ \E io \in SaveOutcomes : setchannel(AdminChannel, io) /\ Untracked
  \/ Advance /\ Untracked

SpecBoot == InitBoot /\ [][NextBoot]_vars

\* The two formatters applied to one duration: stay_str = fmt(stay) in
\* on_voice_state_update, t_str in daily_summary.
format_duration ==
  /\ fmt_out = <<>>
  /\ fmt_out' = <<fmt_float(fmt_sec), summary_float(fmt_sec)>>
  /\ UNCHANGED <<clock, events, join_times, daily_total, active_users, dest_channel_id,
                 config_file, totals_file, ready, loop, pending, in_flight, last_enter,
                 fmt_sec, last>>

\* Every non-negative duration up to MaxSec seconds, in steps of 1/SubSec s.
InitFmt ==
  /\ clock = ClockBase
  /\ events = 0
  /\ config_file = <<"missing">>
  /\ totals_file = <<"missing">>
  /\ dest_channel_id = load_persisted_dest_channel_id(config_file)
  /\ join_times = EmptyDict
  /\ daily_total = load_daily_totals(totals_file)
  /\ active_users = {}
  /\ ready = FALSE
  /\ loop = "running"
  /\ pending = NoPending
  /\ in_flight = {}
  /\ last_enter = EmptyDict
  /\ fmt_sec \in 0..(MaxSec * SubSec)
  /\ fmt_out = <<>>
  /\ last = Report("start", 0, "none", "start", PyNone, <<>>, "none", FALSE)

NextFmt == format_duration

SpecFmt == InitFmt /\ [][NextFmt]_vars

TypeOK ==
  /\ clock \in ClockValues
  /\ active_users \subseteq Members
  /\ DOMAIN join_times \subseteq Members
  /\ DOMAIN daily_total \subseteq Members
  /\ loop \in {"running", "sending", "stopped"}

\* ------------------------------------------------------------------ claims
Max0(x) == IF x < 0 THEN 0 ELSE x

\* The step is one run of a handler.
HandlerStep == events' = events + 1

\* The step is a leave handled for member m that credited a duration.
CreditedLeave(m) ==
  /\ HandlerStep
  /\ last'.op = "voice" /\ last'.kind = "leave" /\ last'.member = m /\ ~last'.crashed

\* C1: the duration a leave adds to the member's total is the clock at the leave
\* minus the clock at the member's most recent enter, clamped to be at least 0
\* (stated for a leave that follows exactly one enter event).
C1_DurationClamped ==
  [][\A m \in Members :
       (CreditedLeave(m) /\ m \in DOMAIN last_enter /\ last_enter[m].n = 1)
         => daily_total'[m] = DictGet(daily_total, m, 0) + Max0(clock - last_enter[m].at)]_vars

\* C2: every transition of a human member from outside the target channel into
\* it is handled as an enter: an open session starting now is recorded and an
\* entered notification is emitted.
C2_EnterHandled ==
  [][(HandlerStep /\ last'.op = "voice" /\ last'.event = "enter")
       => /\ last'.member \in DOMAIN join_times'
          /\ join_times'[last'.member] = clock
          /\ last'.notes = <<EnteredMsg(last'.member, TargetVc)>>]_vars

\* C3: every transition of a human member from the target channel to outside it
\* is handled as a leave: an open session is removed, its duration is added to
\* the member's total, the totals are written and a left notification is emitted.
C3_LeaveHandled ==
  [][\A m \in Members :
       (/\ HandlerStep
        /\ last'.op = "voice" /\ last'.event = "leave" /\ last'.member = m /\ ~last'.crashed
        /\ m \in DOMAIN join_times)
         => /\ m \notin DOMAIN join_times'
            /\ m \in DOMAIN daily_total'
            /\ daily_total'[m] = DictGet(daily_total, m, 0) + (clock - join_times[m])
            /\ totals_file' \in {TotalsJson(daily_total'), <<"partial">>}
            /\ Len(last'.notes) = 1
            /\ last'.notes[1][1] = "left"]_vars

\* C4: a leave event of a member without an open session changes neither the
\* totals nor the active set nor the totals document, emits no notification and
\* raises no error.
C4_LeaveWithoutSession ==
  [][(/\ HandlerStep
      /\ last'.op = "voice" /\ last'.event = "leave"
      /\ last'.member \notin DOMAIN join_times)
       => /\ daily_total' = daily_total
          /\ active_users' = active_users
          /\ totals_file' = totals_file
          /\ last'.notes = <<>>
          /\ last'.result # "raised"
          /\ ~last'.crashed]_vars

\* A leave of a member without a session was dropped while totals were on record.
C4_Witness ==
  /\ last.op = "voice" /\ last.event = "leave" /\ last.kind = "dropped"
  /\ last.member \notin DOMAIN join_times
  /\ daily_total # EmptyDict

\* C5: after two enter events of a member with no leave event between them, the
\* next credited leave measures its duration from the later enter.
C5_LatestEnterUsed ==
  [][\A m \in Members :
       (CreditedLeave(m) /\ m \in DOMAIN last_enter /\ last_enter[m].n >= 2)
         => last'.stay = PyInt(clock - last_enter[m].at)]_vars

\* The step is one iteration of the daily_summary loop, from its start.
TickStep == HandlerStep /\ last'.op = "daily_summary" /\ loop = "running"

\* The clock reads 23:59 in the zone nine hours ahead of UTC.
AtJst2359(t) == ((t + 9 * 3600) % 86400) \div 60 = 23 * 60 + 59

\* C6: a tick at 23:59 UTC+9 with a non-empty active set hands exactly one
\* summary to notify, holding one line with the accumulated total for every
\* member of the active set, and when the rollover has completed the totals and
\* the active set are empty.
C6_RolloverSummary ==
  [][/\ (TickStep /\ AtJst2359(clock) /\ active_users # {})
          => last'.notes = << <<"summary", [u \in active_users |-> fmt(DictGet(daily_total, u, 0))]>> >>
     /\ (HandlerStep /\ last'.op = "daily_summary" /\ loop = "sending")
          => last'.notes = <<>>
     /\ (HandlerStep /\ last'.op = "daily_summary" /\ last'.kind = "rollover")
          => (daily_total' = EmptyDict /\ active_users' = {})]_vars

\* A rollover whose summary was delivered has completed.
C6_Witness ==
  /\ last.op = "daily_summary" /\ last.kind = "rollover" /\ last.result = "delivered"
  /\ ~last.crashed
  /\ daily_total = EmptyDict /\ active_users = {}
  /\ AtJst2359(clock)

\* C7: a duration credited by a leave while the rollover waits for its summary
\* to be sent is not lost: it is in the summary, or still in the totals after
\* the reset.
C7_NoLostDuration ==
  [][(/\ HandlerStep /\ loop = "sending"
      /\ last'.op = "daily_summary" /\ last'.kind = "rollover" /\ ~last'.crashed)
       => \A m \in in_flight :
            \/ m \in DOMAIN pending[2] /\ pending[2][m] = summary_fmt(DictGet(daily_total, m, 0))
            \/ m \in DOMAIN daily_total']_vars

\* C8: a save interrupted by a crash leaves the previous valid document in place.
C8_CrashKeepsDocument ==
  [][(HandlerStep /\ last'.crashed)
       => /\ config_file[1] = "object" => config_file' = config_file
          /\ totals_file[1] = "object" => totals_file' = totals_file]_vars

\* C9: no delivery failure propagates out of notify, so no handler is cut short
\* and the rollover loop keeps running.
C9_NotifyNeverRaises == last.result # "raised" /\ loop # "stopped"

\* The documents the persisted-file formats allow.
ValidConfig(file) == file[1] = "object" /\ file[2][1] \in {"num", "digits", "null"}
ValidTotals(file) ==
  /\ file[1] = "object"
  /\ \A k \in DOMAIN file[2] : k[1] = "id" /\ file[2][k][1] = "num" /\ file[2][k][2] >= 0

\* C10: after a start on a missing, malformed or wrongly typed document the
\* destination is absent, respectively the totals are the empty mapping.
C10_BadDocumentsLoadEmpty ==
  (last.op = "start" \/ last.crashed)
    => /\ ~ValidConfig(config_file) => dest_channel_id = PyNone
       /\ ~ValidTotals(totals_file) => daily_total = EmptyDict

\* The step is a completed rollover reset.
CompletedReset ==
  HandlerStep /\ last'.op = "daily_summary" /\ last'.kind = "rollover" /\ ~last'.crashed

\* The step is a leave that credited a duration and ran to its end.
CompletedLeave ==
  HandlerStep /\ last'.op = "voice" /\ last'.kind = "leave" /\ ~last'.crashed

\* The most recent handler was a completed leave or rollover reset whose write
\* of the totals document did not fail.
TotalsJustSaved ==
  /\ last.op \in {"voice", "daily_summary"} /\ last.kind \in {"leave", "rollover"}
  /\ ~last.crashed
  /\ totals_file # <<"partial">>

\* C11: after every completed leave handling and every completed rollover reset
\* whose write did not fail, loading the totals document yields exactly the
\* totals in memory (the empty mapping after a reset), and a restart at such a
\* point restores the same totals.
C11_TotalsRoundTrip ==
  [][/\ ((CompletedLeave \/ CompletedReset) /\ totals_file' # <<"partial">>)
          => load_daily_totals(totals_file') = daily_total'
     /\ (CompletedReset /\ totals_file' # <<"partial">>)
          => totals_file' = TotalsJson(EmptyDict)
     /\ (HandlerStep /\ last'.op = "start" /\ TotalsJustSaved)
          => daily_total' = daily_total]_vars

\* A restart has restored totals that a leave had saved.
C11_Witness ==
  /\ last.op = "start"
  /\ daily_total # EmptyDict
  /\ \E m \in DOMAIN daily_total : daily_total[m] > 0
  /\ load_daily_totals(totals_file) = daily_total

\* The step starts the process again (a restart, or the start after a crash).
BootStep == HandlerStep /\ (last'.op = "start" \/ last'.crashed)

\* The step is a set-destination action that ran to its end.
SetStep == HandlerStep /\ last'.op = "setchannel" /\ ~last'.crashed

\* C12: the destination in use is the channel of the most recent
\* set-destination action: the action overwrites the value in use and the
\* persisted one, a restart reloads the persisted one, and no other operation
\* changes either.
C12_DestinationIsLastSet ==
  [][/\ SetStep => dest_channel_id' = PyInt(last'.member)
     /\ (SetStep /\ last'.result = "saved")
          => load_persisted_dest_channel_id(config_file') = PyInt(last'.member)
     /\ (HandlerStep /\ last'.op = "setchannel" /\ last'.crashed)
          => /\ config_file' \in {config_file, ConfigJson(PyInt(last'.member))}
             /\ dest_channel_id' = load_persisted_dest_channel_id(config_file')
     /\ (HandlerStep /\ last'.op = "start")
          => /\ config_file' = config_file
             /\ dest_channel_id' = load_persisted_dest_channel_id(config_file)
     /\ (HandlerStep /\ last'.op = "start" /\ last.op = "setchannel" /\ last.result = "saved")
          => dest_channel_id' = PyInt(last.member)
     /\ (HandlerStep /\ last'.op \in {"voice", "daily_summary"})
          => /\ config_file' = config_file
             /\ ~last'.crashed => dest_channel_id' = dest_channel_id
             /\ last'.crashed => dest_channel_id' = load_persisted_dest_channel_id(config_file)
     /\ ~HandlerStep => (dest_channel_id' = dest_channel_id /\ config_file' = config_file)]_vars

\* A restart has reloaded the destination that an admin action had set.
C12_Witness ==
  /\ last.op = "start"
  /\ dest_channel_id = PyInt(AdminChannel)
  /\ config_file = ConfigJson(PyInt(AdminChannel))

\* C13: the running total in a member's left notification is the member's total
\* before the leave plus the duration of the session just ended, the totals of
\* the other members are left alone, and between two resets nothing but a leave
\* changes the totals: the total shown is the sum of the member's sessions
\* completed since the last reset.
C13_RunningTotal ==
  [][/\ \A m \in Members :
          (CompletedLeave /\ last'.member = m)
            => LET sum == DictGet(daily_total, m, 0) + (clock - join_times[m])
               IN /\ daily_total'[m] = sum
                  /\ \A i \in 1..Len(last'.notes) :
                       /\ last'.notes[i][1] = "left"
                       /\ last'.notes[i][2] = m
                       /\ last'.notes[i][5] = fmt(sum)
                  /\ Len(last'.notes) = 1
                  /\ \A n \in Members \ {m} :
                       /\ n \in DOMAIN daily_total' <=> n \in DOMAIN daily_total
                       /\ n \in DOMAIN daily_total => daily_total'[n] = daily_total[n]
     /\ CompletedReset => daily_total' = EmptyDict
     /\ ~(CompletedLeave \/ CompletedReset \/ BootStep) => daily_total' = daily_total]_vars

\* The left notification of a member's second session shows the total of both.
C13_Witness ==
  /\ last.op = "voice" /\ last.kind = "leave" /\ ~last.crashed
  /\ last.stay = PyInt(0)
  /\ daily_total[last.member] = ClockStep
  /\ last.notes[1][5] = fmt(ClockStep)

\* C14: the active set holds every member with an open session and every
\* member with a total on record, and a leave that credits a duration leaves the
\* member in the active set.
C14_ActiveSetComplete ==
  [][/\ \A m \in Members : (CompletedLeave /\ last'.member = m) => m \in active_users'
     /\ HandlerStep => (DOMAIN join_times' \cup DOMAIN daily_total') \subseteq active_users']_vars

\* The rendering the formatting rule asks for, for d counted in 1/SubSec s.
Rendered(d) ==
  LET s == d \div SubSec IN
  IF d < 60 * SubSec THEN <<s, "sec">>
  ELSE IF d < 3600 * SubSec THEN <<s \div 60, "min", s - 60 * (s \div 60), "sec">>
  ELSE <<s \div 3600, "hour", (s \div 60) % 60, "min", s - 60 * (s \div 60), "sec">>

\* C15: both formatters render a non-negative duration as seconds below 60 s, as
\* minutes and seconds below 3600 s and as hours, minutes and seconds from
\* 3600 s on, fields of zero included, and they give the same text.
C15_FormatRule ==
  fmt_out # <<>>
    => /\ fmt_out[1] = Rendered(fmt_sec)
       /\ fmt_out[2] = fmt_out[1]
       /\ fmt_sec = 45 * SubSec => fmt_out[1] = <<45, "sec">>
       /\ fmt_sec = 125 * SubSec => fmt_out[1] = <<2, "min", 5, "sec">>
       /\ fmt_sec = 3725 * SubSec => fmt_out[2] = <<1, "hour", 2, "min", 5, "sec">>
       /\ fmt_sec = 120 * SubSec => fmt_out[2] = <<2, "min", 0, "sec">>
       /\ fmt_sec = 3600 * SubSec => fmt_out[1] = <<1, "hour", 0, "min", 0, "sec">>

\* A duration of an hour and a fraction of a second has been formatted.
C15_Witness ==
  /\ fmt_out # <<>>
  /\ fmt_sec = 3600 * SubSec + 1
  /\ fmt_out[1] = <<1, "hour", 0, "min", 0, "sec">>

\* C16: the rollover scheduler runs no iteration before the connection has
\* signalled ready: until then no handler step is a tick and no summary is
\* handed to notify.
C16_NoTickBeforeReady ==
  [][/\ (HandlerStep /\ last'.op = "daily_summary") => ready
     /\ (HandlerStep /\ ~ready)
          => \A i \in 1..Len(last'.notes) : last'.notes[i][1] # "summary"]_vars

\* The cutoff minute has come with a member in the active set while the
\* scheduler still waits for the ready signal.
C16_Witness ==
  /\ ~ready
  /\ loop = "running"
  /\ AtJst2359(clock)
  /\ active_users # {}
  /\ last.op = "voice" /\ last.kind = "enter"

\* The step is a tick that fires the rollover.
FiringTick == TickStep /\ AtJst2359(clock) /\ active_users # {}

\* C17 as stated: a member who entered and left earlier in the day and is not in
\* the channel at the cutoff has no line in the summary emitted at the cutoff.
C17_LeftMemberDropped ==
  [][FiringTick
       => \A m \in Members :
            (m \in DOMAIN daily_total /\ m \notin DOMAIN join_times)
              => \A i \in 1..Len(last'.notes) : m \notin DOMAIN last'.notes[i][2]]_vars

\* C17 as amended: a leave does not take the member out of the active set, and
\* the summary emitted at the cutoff has a line, with the accumulated total, for
\* every member of the active set who is no longer in the channel.
C17_LeftMemberListed ==
  [][/\ (HandlerStep /\ last'.op = "voice" /\ ~last'.crashed) => active_users \subseteq active_users'
     /\ FiringTick
          => /\ Len(last'.notes) = 1
             /\ \A m \in active_users \ DOMAIN join_times :
                  /\ m \in DOMAIN last'.notes[1][2]
                  /\ last'.notes[1][2][m] = fmt(DictGet(daily_total, m, 0))]_vars

\* The summary handed to notify lists a member who left before the cutoff.
C17_Witness ==
  /\ last.op = "daily_summary" /\ Len(last.notes) = 1
  /\ \E m \in DOMAIN last.notes[1][2] :
       /\ m \notin DOMAIN join_times
       /\ last.notes[1][2][m] = fmt(ClockStep)

\* C18: a transition of an automated account, or one in which neither the
\* previous nor the new location is the target channel, changes neither the open
\* sessions nor the totals nor the active set nor the two documents (nor the
\* destination) and hands nothing to notify.
C18_IgnoredTransitions ==
  [][(HandlerStep /\ last'.op = "voice" /\ last'.event \in {"bot", "elsewhere"})
       => /\ join_times' = join_times
          /\ daily_total' = daily_total
          /\ active_users' = active_users
          /\ dest_channel_id' = dest_channel_id
          /\ config_file' = config_file
          /\ totals_file' = totals_file
          /\ last'.notes = <<>>
          /\ last'.result = "none"
          /\ ~last'.crashed]_vars

\* A transition of an automated account has been ignored while a session was
\* open and a total was on record.
C18_Witness ==
  /\ last.op = "voice" /\ last.event = "bot" /\ last.kind = "ignored"
  /\ join_times # EmptyDict
  /\ daily_total # EmptyDict
  /\ totals_file = TotalsJson(daily_total)

\* The step ends an iteration of the daily_summary loop that ran in the 23:59
\* minute: the iteration did not fire, or its reset has completed.
CutoffTickDone ==
  /\ HandlerStep /\ last'.op = "daily_summary" /\ ~last'.crashed
  /\ last'.kind \in {"skipped", "rollover"}
  /\ AtJst2359(clock)

\* C19: after every tick that runs in the 23:59 minute the totals in memory are
\* empty and the totals document loads as the empty mapping.
C19_NoCarryOver ==
  [][CutoffTickDone
       => /\ daily_total' = EmptyDict
          /\ load_daily_totals(totals_file') = EmptyDict]_vars

\* C20: no iteration of the rollover changes the open sessions; the summary
\* line of a member whose session is open shows the total on record only, with
\* nothing of the open session in it; and the leave of a session that was open
\* when the rollover fired credits the whole time since its start to the totals
\* of the new day: after a reset that came first it is added to the member's
\* total, and a reset that comes after it (the leave fell into the rollover's
\* wait for the transport) leaves the member's total on record.
C20_RolloverKeepsSessions ==
  [][/\ (HandlerStep /\ last'.op = "daily_summary" /\ ~last'.crashed)
          => join_times' = join_times
     /\ FiringTick
          => \A m \in active_users \cap DOMAIN join_times :
               /\ Len(last'.notes) = 1
               /\ last'.notes[1][2][m] = fmt(DictGet(daily_total, m, 0))
     /\ \A m \in Members :
          (CompletedLeave /\ last'.member = m /\ m \notin active_users)
            => /\ last'.stay = PyInt(clock - join_times[m])
               /\ daily_total'[m] = DictGet(daily_total, m, 0) + (clock - join_times[m])
     /\ (CompletedReset /\ loop = "sending")
          => \A m \in in_flight \cap DOMAIN pending[2] : m \in DOMAIN daily_total']_vars

====
